---- MODULE Spec2Model ----
(***************************************************************************)
(* pygwb: the notch lists of pygwb/notch.py and the overlap reduction      *)
(* function of src/orfs.py.                                                *)
(*                                                                         *)
(* Frequencies are fixed-point numbers: an integer v stands for v/100 Hz.  *)
(* A Python exception is the name of its type; NoError is no exception.    *)
(***************************************************************************)
EXTENDS Integers, Sequences, FiniteSets, TLC

VARIABLES
    notches,    \* the StochNotchList object `self`: a sequence of notches
    old,        \* the list as it was when the last operation started
    op,         \* the last operation called
    raised,     \* the exception the last operation ended with, or NoError
    args,       \* the arguments of the last operation
    ret,        \* the value the last operation returned
    file,       \* the text file save_to_txt wrote: a sequence of lines
    loaded      \* what load_from_file returned

vars == <<notches, old, op, raised, args, ret, file, loaded>>

NoError == "NoError"
ValueError == "ValueError"
TypeError == "TypeError"
None == [none |-> TRUE]

\* ------------------------------------------------------------ bounds
MaxLen == 3
MaxFreq == 2
MaxHarmonics == 2

\* The frequencies and descriptions the list operations draw from.
Freqs == 1..MaxFreq
Descs == {"x", "y"}

\* ------------------------------------------------------------ sequences
RECURSIVE SeqsUpTo(_, _)
SeqsUpTo(S, n) ==
    IF n = 0 THEN {<<>>}
    ELSE LET shorter == SeqsUpTo(S, n - 1)
         IN shorter \cup {Append(s, x) : s \in {t \in shorter : Len(t) = n - 1}, x \in S}

Range(s) == {s[i] : i \in 1..Len(s)}

\* ------------------------------------------------------------ Notch
\* bilby's Notch, the base class of StochNotch: its constructor keeps the
\* ordering of the bounds, its check_frequency is the closed interval.
NotchAccepts(minimum_frequency, maximum_frequency) ==
    minimum_frequency <= maximum_frequency

Notch_check_frequency(notch, freq) ==
    notch.minimum_frequency <= freq /\ freq <= notch.maximum_frequency

\* StochNotch.__init__ with the base constructor's check left out.
StochNotchUnchecked(minimum_frequency, maximum_frequency, description) ==
    [raised |-> NoError,
     obj |-> [minimum_frequency |-> minimum_frequency,
              maximum_frequency |-> maximum_frequency,
              description |-> description]]

\* StochNotch.__init__: super().__init__(min, max), then the description.
StochNotch(minimum_frequency, maximum_frequency, description) ==
    IF NotchAccepts(minimum_frequency, maximum_frequency)
    THEN [raised |-> NoError,
          obj |-> [minimum_frequency |-> minimum_frequency,
                   maximum_frequency |-> maximum_frequency,
                   description |-> description]]
    ELSE [raised |-> ValueError, obj |-> None]

\* ------------------------------------------------------------ StochNotchList
\* An element of the constructor's argument: a Python value that is a tuple or
\* not (a list, say), with its items.
\* The constructor's test with the isinstance check dropped: a list of three
\* items passes.
IsTripleNoTypeCheck(notch) == Len(notch.items) = 3

IsTriple(notch) == notch.isTuple /\ Len(notch.items) = 3

\* The loop of StochNotchList.__init__ from element k on, self built so far.
RECURSIVE InitLoop(_, _, _)
InitLoop(notch_list, k, self) ==
    IF k > Len(notch_list) THEN [raised |-> NoError, self |-> self]
    ELSE LET notch == notch_list[k]
         IN IF IsTriple(notch)
            THEN LET made == StochNotch(notch.items[1], notch.items[2], notch.items[3])
                 IN IF made.raised # NoError
                    THEN [raised |-> made.raised, self |-> self]
                    ELSE InitLoop(notch_list, k + 1, Append(self, made.obj))
            ELSE [raised |-> ValueError, self |-> self]

\* StochNotchList.__init__(notch_list): None builds the empty list.
StochNotchList(notch_list) ==
    IF notch_list = None THEN [raised |-> NoError, self |-> <<>>]
    ELSE InitLoop(notch_list.elems, 1, <<>>)

\* The loop of StochNotchList.check_frequency from notch k on.
RECURSIVE CheckLoop(_, _, _)
CheckLoop(self, freq, k) ==
    IF k > Len(self) THEN FALSE
    ELSE IF Notch_check_frequency(self[k], freq) THEN TRUE
         ELSE CheckLoop(self, freq, k + 1)

\* check_frequency returning after the first notch whatever it says.
check_frequency_first_only(self, freq) ==
    Len(self) > 0 /\ Notch_check_frequency(self[1], freq)

check_frequency(self, freq) == CheckLoop(self, freq, 1)

\* list.sort(key=...): stable.  Insert notch after the entries whose key is
\* not greater.
RECURSIVE InsertByKey(_, _)
InsertByKey(sorted, notch) ==
    IF sorted = <<>> THEN <<notch>>
    ELSE IF sorted[Len(sorted)].minimum_frequency <= notch.minimum_frequency
         THEN Append(sorted, notch)
         ELSE Append(InsertByKey(SubSeq(sorted, 1, Len(sorted) - 1), notch),
                     sorted[Len(sorted)])

RECURSIVE SortFrom(_, _, _)
SortFrom(self, k, sorted) ==
    IF k > Len(self) THEN sorted
    ELSE SortFrom(self, k + 1, InsertByKey(sorted, self[k]))

\* A sort by the wider key (minimum, maximum): not the order of arrival among
\* equal minimum frequencies.
RECURSIVE InsertByBoth(_, _)
InsertByBoth(sorted, notch) ==
    IF sorted = <<>> THEN <<notch>>
    ELSE LET last == sorted[Len(sorted)]
         IN IF \/ last.minimum_frequency < notch.minimum_frequency
               \/ /\ last.minimum_frequency = notch.minimum_frequency
                  /\ last.maximum_frequency <= notch.maximum_frequency
            THEN Append(sorted, notch)
            ELSE Append(InsertByBoth(SubSeq(sorted, 1, Len(sorted) - 1), notch), last)

RECURSIVE SortBothFrom(_, _, _)
SortBothFrom(self, k, sorted) ==
    IF k > Len(self) THEN sorted
    ELSE SortBothFrom(self, k + 1, InsertByBoth(sorted, self[k]))

sort_list_by_both(self) == SortBothFrom(self, 1, <<>>)

sort_list(self) == SortFrom(self, 1, <<>>)

\* ------------------------------------------------------------ generators
\* x / 2 on the even numbers the generators are given.
Half(x) == x \div 2

\* The loop of power_lines over freqs = fundamental * arange(1, nharmonics + 1).
RECURSIVE PowerLinesLoop(_, _, _, _, _)
PowerLinesLoop(fundamental, nharmonics, df, k, out) ==
    IF k > nharmonics THEN [raised |-> NoError, self |-> out]
    ELSE LET f0 == fundamental * k
             made == StochNotch(f0 - Half(df), f0 + Half(df), "Power Lines")
         IN IF made.raised # NoError
            THEN [raised |-> made.raised, self |-> out]
            ELSE PowerLinesLoop(fundamental, nharmonics, df, k + 1,
                                Append(out, made.obj))

power_lines(fundamental, nharmonics, df) ==
    PowerLinesLoop(fundamental, nharmonics, df, 1, <<>>)

\* doppler is DopplerNum / DopplerDen; the bounds pulsar_injections computes
\* are kept as multiples of 1 / (2 * DopplerDen) of the file's unit.
DopplerDen == 10

RECURSIVE PulsarLoop(_, _, _, _, _, _)
PulsarLoop(rows, t_start, t_end, dopplerNum, k, out) ==
    IF k > Len(rows) THEN [raised |-> NoError, self |-> out]
    ELSE LET t_ref == rows[k][1]
             f_ref == rows[k][2]
             f_dot == rows[k][3]
             f_start == f_ref + f_dot * (t_start - t_ref)
             f_end == f_ref + f_dot * (t_end - t_ref)
             f1 == 2 * f_start * (DopplerDen + dopplerNum)
             f2 == 2 * f_end * (DopplerDen - dopplerNum)
             f0 == Half(f1 + f2)
             df == f1 - f2
             made == StochNotch(f0 - Half(df), f0 + Half(df), "Pulsar injection")
         IN IF made.raised # NoError
            THEN [raised |-> made.raised, self |-> out]
            ELSE PulsarLoop(rows, t_start, t_end, dopplerNum, k + 1,
                            Append(out, made.obj))

\* np.loadtxt(filename, unpack=True) of a one-row file gives three scalars,
\* which zip cannot iterate.
pulsar_injections(rows, t_start, t_end, dopplerNum) ==
    IF Len(rows) = 1 THEN [raised |-> TypeError, self |-> <<>>]
    ELSE PulsarLoop(rows, t_start, t_end, dopplerNum, 1, <<>>)

\* ------------------------------------------------------------ the list operations
\* Constructor arguments: triples, a tuple of two, a tuple of four, and a list
\* of three items.
Triples == {[isTuple |-> TRUE, items |-> <<a, b, d>>] : a \in Freqs, b \in Freqs, d \in Descs}
Malformed == {[isTuple |-> TRUE, items |-> <<1, 2>>],
              [isTuple |-> TRUE, items |-> <<1, 2, "x", "y">>],
              [isTuple |-> FALSE, items |-> <<1, 2, "x">>]}
NotchListArgs ==
    {None} \cup {[none |-> FALSE, elems |-> s] : s \in SeqsUpTo(Triples \cup Malformed, MaxLen)}

PulsarRows == {<<0, 10, f_dot>> : f_dot \in {-1, 0, 1}}
PulsarFiles == {s \in SeqsUpTo(PulsarRows, 2) : Len(s) >= 1}

\* A program builds its list first (the constructor or a generator), then
\* works on it.
Fresh == op = "none"
HasList == op # "none" /\ raised = NoError

Construct ==
    /\ Fresh
    /\ \E notch_list \in NotchListArgs :
        LET r == StochNotchList(notch_list)
        IN /\ op' = "StochNotchList"
           /\ args' = [notch_list |-> notch_list]
           /\ raised' = r.raised
           /\ notches' = IF r.raised = NoError THEN r.self ELSE <<>>
           /\ old' = <<>>
           /\ ret' = None
           /\ UNCHANGED <<file, loaded>>

\* list.append of a notch the caller built.
ListAppend ==
    /\ HasList
    /\ Len(notches) < MaxLen
    /\ \E a \in Freqs, b \in Freqs, d \in Descs :
        LET made == StochNotch(a, b, d)
        IN /\ made.raised = NoError
           /\ op' = "append"
           /\ args' = [notch |-> made.obj, after_sort |-> (op = "sort_list")]
           /\ notches' = Append(notches, made.obj)
           /\ old' = notches
           /\ raised' = NoError
           /\ ret' = None
           /\ UNCHANGED <<file, loaded>>

SortList ==
    /\ HasList
    /\ op' = "sort_list"
    /\ args' = None
    /\ notches' = sort_list(notches)
    /\ old' = notches
    /\ raised' = NoError
    /\ ret' = None
    /\ UNCHANGED <<file, loaded>>

CheckFrequency ==
    /\ HasList
    /\ \E freq \in 0..(MaxFreq + 1) :
        /\ op' = "check_frequency"
        /\ args' = [freq |-> freq]
        /\ ret' = [value |-> check_frequency(notches, freq)]
        /\ old' = notches
        /\ raised' = NoError
        /\ UNCHANGED <<notches, file, loaded>>

PowerLines ==
    /\ Fresh
    /\ \E fundamental \in {2, 4}, nharmonics \in 0..MaxHarmonics, df \in {-2, 0, 2} :
        LET r == power_lines(fundamental, nharmonics, df)
        IN /\ op' = "power_lines"
           /\ args' = [fundamental |-> fundamental, nharmonics |-> nharmonics, df |-> df]
           /\ raised' = r.raised
           /\ notches' = IF r.raised = NoError THEN r.self ELSE <<>>
           /\ old' = <<>>
           /\ ret' = None
           /\ UNCHANGED <<file, loaded>>

PulsarInjections ==
    /\ Fresh
    /\ \E rows \in PulsarFiles, t_start \in 0..1, t_end \in 0..1, dopplerNum \in {0, 1} :
        LET r == pulsar_injections(rows, t_start, t_end, dopplerNum)
        IN /\ op' = "pulsar_injections"
           /\ args' = [rows |-> rows, t_start |-> t_start, t_end |-> t_end,
                       dopplerNum |-> dopplerNum]
           /\ raised' = r.raised
           /\ notches' = IF r.raised = NoError THEN r.self ELSE <<>>
           /\ old' = <<>>
           /\ ret' = None
           /\ UNCHANGED <<file, loaded>>

Init ==
    /\ notches = <<>>
    /\ old = <<>>
    /\ op = "none"
    /\ raised = NoError
    /\ args = None
    /\ ret = None
    /\ file = <<>>
    /\ loaded = None

Next ==
    \/ Construct
    \/ ListAppend
    \/ SortList
    \/ CheckFrequency
    \/ PowerLines
    \/ PulsarInjections

Spec == Init /\ [][Next]_vars

\* ------------------------------------------------------------ Python text and rounding
Digit(d) == <<"0", "1", "2", "3", "4", "5", "6", "7", "8", "9">>[d + 1]

RECURSIVE DigitsOf(_)
DigitsOf(n) == IF n < 10 THEN <<Digit(n)>> ELSE Append(DigitsOf(n \div 10), Digit(n % 10))

\* str of a float64 of v/100, v >= 0: the shortest text that reads back, which
\* keeps one digit after the point at least.
StrOfFloat(v) ==
    LET frac == v % 100
    IN DigitsOf(v \div 100) \o <<".">> \o
       (IF frac % 10 = 0 THEN <<Digit(frac \div 10)>>
        ELSE <<Digit(frac \div 10), Digit(frac % 10)>>)

\* str of an int64: an integer array holds whole numbers, multiples of 100 here.
StrOfInt(v) == DigitsOf(v \div 100)

Reverse(s) == [i \in 1..Len(s) |-> s[Len(s) + 1 - i]]

\* str.find(ch): the index from 0 of the first ch, -1 when there is none.
Find(s, ch) ==
    IF \E i \in 1..Len(s) : s[i] = ch
    THEN (CHOOSE i \in 1..Len(s) : s[i] = ch /\ \A j \in 1..(i - 1) : s[j] # ch) - 1
    ELSE -1

RECURSIVE Pow10(_)
Pow10(n) == IF n = 0 THEN 1 ELSE 10 * Pow10(n - 1)

\* The step between the numbers round(x, precision) can give, in hundredths.
Quantum(precision) == IF precision >= 2 THEN 1 ELSE Pow10(2 - precision)

\* round(x, precision) of a numpy scalar: to the nearest multiple of
\* 10^-precision, a tie to the even one.
Round(x, precision) ==
    LET q == Quantum(precision)
        lo == (x \div q) * q
        r == x - lo
    IN IF 2 * r < q THEN lo
       ELSE IF 2 * r > q THEN lo + q
       ELSE IF (x \div q) % 2 = 0 THEN lo ELSE lo + q

Abs(x) == IF x < 0 THEN -x ELSE x

\* ------------------------------------------------------------ get_idxs
\* The values temp takes: the integer 0 it starts as, and the two booleans.
PyZero == "0"
PyTrue == "True"
PyFalse == "False"
Truthy(v) == v = PyTrue
PyNot(v) == IF Truthy(v) THEN PyFalse ELSE PyTrue

\* df_str[::-1].find('.')
Precision(df, dtype) ==
    Find(Reverse(IF dtype = "int" THEN StrOfInt(df) ELSE StrOfFloat(df)), ".")

\* The lower bound read at the bin itself, not at the bin before it.
WindowLowOwnBin(frequency_array, my_iter, df, precision) ==
    IF my_iter = 1 THEN Round(frequency_array[my_iter], precision) - df
    ELSE Round(frequency_array[my_iter], precision)

\* The bounds a bin's notches are tested against, my_iter counted from 1.
WindowLow(frequency_array, my_iter, df, precision) ==
    IF my_iter = 1 THEN Round(frequency_array[my_iter], precision) - df
    ELSE Round(frequency_array[my_iter - 1], precision)

WindowHigh(frequency_array, my_iter, df, precision) ==
    IF my_iter = Len(frequency_array) /\ my_iter # 1
    THEN Round(frequency_array[my_iter], precision) + df
    ELSE Round(frequency_array[my_iter + 1], precision)

\* The loop over the notches with its break missing: the last notch decides.
RECURSIVE NotchLoopNoBreak(_, _, _, _, _)
NotchLoopNoBreak(self, k, low, high, temp) ==
    IF k > Len(self) THEN temp
    ELSE NotchLoopNoBreak(self, k + 1, low, high,
            IF /\ ~(self[k].maximum_frequency <= low)
               /\ ~(self[k].minimum_frequency >= high)
            THEN PyTrue ELSE PyFalse)

\* for notch in self: ... temp = True; break ... else: temp = False
RECURSIVE NotchLoop(_, _, _, _, _)
NotchLoop(self, k, low, high, temp) ==
    IF k > Len(self) THEN temp
    ELSE IF /\ ~(self[k].maximum_frequency <= low)
            /\ ~(self[k].minimum_frequency >= high)
         THEN PyTrue
         ELSE NotchLoop(self, k + 1, low, high, PyFalse)

\* inv_idxs built from all but the last entry.
InvIdxsShort(idxs) == [i \in 1..(Len(idxs) - 1) |-> PyNot(idxs[i])]

\* inv_idxs = [not elem for elem in idxs]
InvIdxs(idxs) == [i \in 1..Len(idxs) |-> PyNot(idxs[i])]

get_idxs(self, frequency_array, dtype) ==
    LET df == Abs(frequency_array[3] - frequency_array[2])
        precision == Precision(df, dtype)
        idxs == [my_iter \in 1..Len(frequency_array) |->
                    NotchLoop(self, 1,
                              WindowLow(frequency_array, my_iter, df, precision),
                              WindowHigh(frequency_array, my_iter, df, precision),
                              PyZero)]
    IN [idxs |-> idxs, inv_idxs |-> InvIdxs(idxs)]

\* ------------------------------------------------------------ masking a frequency array
MaxBins == 4
MaxNotches == 2

\* The arrays and notch bounds the masking is run on: floats on a grid the
\* rounding keeps, floats on a grid it moves, and an integer array.
Families ==
    {[dtype |-> "float", grid |-> {50, 100, 150, 200}, bounds |-> {75, 100, 120}],
     [dtype |-> "float", grid |-> {25, 50, 75, 125}, bounds |-> {60, 78, 100}],
     [dtype |-> "int", grid |-> {1400, 1500, 1600, 1700}, bounds |-> {1550, 1600, 1650}]}

NotchesOver(bounds) ==
    {StochNotch(pair[1], pair[2], "x").obj :
        pair \in {q \in bounds \X bounds : NotchAccepts(q[1], q[2])}}

InitIdxs ==
    /\ \E fam \in Families :
        /\ notches \in SeqsUpTo(NotchesOver(fam.bounds), MaxNotches)
        /\ \E frequency_array \in {s \in SeqsUpTo(fam.grid, MaxBins) : Len(s) >= 3} :
            args = [frequency_array |-> frequency_array, dtype |-> fam.dtype]
    /\ old = notches
    /\ op = "none"
    /\ raised = NoError
    /\ ret = None
    /\ file = <<>>
    /\ loaded = None

GetIdxs ==
    /\ op = "none"
    /\ op' = "get_idxs"
    /\ ret' = get_idxs(notches, args.frequency_array, args.dtype)
    /\ UNCHANGED <<notches, old, raised, args, file, loaded>>

NextIdxs == GetIdxs

SpecIdxs == InitIdxs /\ [][NextIdxs]_vars

\* ------------------------------------------------------------ text files
\* The characters of the descriptions, in code-point order.
Alphabet == <<" ", "L", "P", "a">>
CharCode(c) == CHOOSE i \in 1..Len(Alphabet) : Alphabet[i] = c

\* s < t as Python compares two str.
RECURSIVE StrLess(_, _)
StrLess(s, t) ==
    IF t = <<>> THEN FALSE
    ELSE IF s = <<>> THEN TRUE
    ELSE IF s[1] # t[1] THEN CharCode(s[1]) < CharCode(t[1])
    ELSE StrLess(Tail(s), Tail(t))

\* max(desc): the first of the greatest.
RECURSIVE MaxStr(_, _, _)
MaxStr(desc, k, best) ==
    IF k > Len(desc) THEN best
    ELSE MaxStr(desc, k + 1, IF StrLess(best, desc[k]) THEN desc[k] ELSE best)

FieldWidth == 20
DescPad == 5

\* "%-<width>s" % s
LJust(s, width) ==
    IF Len(s) >= width THEN s ELSE s \o [i \in 1..(width - Len(s)) |-> " "]

Separator == <<" ", " ", ",", " ", " ">>

\* One line of np.savetxt under fmt "%-20s  ,  %-20s  ,  %-<n>s", the row being
\* the strings numpy made of (fmin, fmax, desc).
FormatRow(fmin, fmax, desc, descWidth) ==
    LJust(StrOfFloat(fmin), FieldWidth) \o Separator \o
    LJust(StrOfFloat(fmax), FieldWidth) \o Separator \o
    LJust(desc, descWidth)

\* save_to_txt: sort_list, then one line per notch.
save_to_txt(self) ==
    LET sorted == sort_list(self)
        desc == [k \in 1..Len(sorted) |-> sorted[k].description]
        descWidth == Len(MaxStr(desc, 2, desc[1])) + DescPad
    IN [self |-> sorted,
        lines |-> [k \in 1..Len(sorted) |->
                    FormatRow(sorted[k].minimum_frequency,
                              sorted[k].maximum_frequency,
                              sorted[k].description, descWidth)]]

\* line.split(","): the fields between the commas, blanks kept.
RECURSIVE SplitFrom(_, _, _, _)
SplitFrom(line, k, field, fields) ==
    IF k > Len(line) THEN Append(fields, field)
    ELSE IF line[k] = "," THEN SplitFrom(line, k + 1, <<>>, Append(fields, field))
    ELSE SplitFrom(line, k + 1, Append(field, line[k]), fields)

Split(line) == SplitFrom(line, 1, <<>>, <<>>)

Strip(field) == SelectSeq(field, LAMBDA c : c # " ")

DigitValue(c) == (CHOOSE d \in 0..9 : Digit(d) = c)

RECURSIVE IntOf(_, _)
IntOf(digits, acc) ==
    IF digits = <<>> THEN acc ELSE IntOf(Tail(digits), 10 * acc + DigitValue(digits[1]))

\* float(text) in hundredths, text being digits, a point and one or two digits.
ParseFloat(field) ==
    LET text == Strip(field)
        dot == Find(text, ".") + 1
        whole == IntOf(SubSeq(text, 1, dot - 1), 0)
        frac == SubSeq(text, dot + 1, Len(text))
    IN 100 * whole + (IF Len(frac) = 1 THEN 10 * IntOf(frac, 0) ELSE IntOf(frac, 0))

\* np.loadtxt(..., unpack=True) of one column: an ndarray of the column when
\* there are two rows or more, the one value when there is one row.
Column(values) ==
    IF Len(values) = 1 THEN [type |-> "scalar", value |-> values[1]]
    ELSE [type |-> "ndarray", items |-> values]

\* StochNotch(fmin, fmax, desc) on what loadtxt returned: the base constructor
\* compares the bounds in an if, which numpy refuses for an array of two or
\* more (ValueError, the truth value is ambiguous).
StochNotchOfColumns(fmin, fmax, desc) ==
    IF fmin.type = "ndarray" THEN [raised |-> ValueError, obj |-> None]
    ELSE StochNotch(fmin.value, fmax.value, desc.value)

RECURSIVE LoadRows(_, _, _, _, _)
LoadRows(fmin, fmax, desc, i, cls) ==
    IF i > Len(fmin.items) THEN [raised |-> NoError, self |-> cls]
    ELSE LET made == StochNotch(fmin.items[i], fmax.items[i], desc.items[i])
         IN IF made.raised # NoError THEN [raised |-> made.raised, self |-> cls]
            ELSE LoadRows(fmin, fmax, desc, i + 1, Append(cls, made.obj))

\* load_from_file: the columns, then `if type(fmin) == list` (never so for what
\* loadtxt returns) the notches row by row, else one notch of the columns.
load_from_file(lines) ==
    LET fields == [k \in 1..Len(lines) |-> Split(lines[k])]
        fmin == Column([k \in 1..Len(lines) |-> ParseFloat(fields[k][1])])
        fmax == Column([k \in 1..Len(lines) |-> ParseFloat(fields[k][2])])
        desc == Column([k \in 1..Len(lines) |-> fields[k][3]])
    IN IF fmin.type = "list" THEN LoadRows(fmin, fmax, desc, 1, <<>>)
       ELSE LET made == StochNotchOfColumns(fmin, fmax, desc)
            IN IF made.raised # NoError THEN [raised |-> made.raised, self |-> <<>>]
               ELSE [raised |-> NoError, self |-> <<made.obj>>]

\* ------------------------------------------------------------ saving and loading
MaxRows == 2

FileBounds == {<<5990, 6010>>, <<11990, 12010>>, <<50, 125>>}
FileDescs == {<<"P", " ", "L">>, <<"a">>, <<"L", "a">>}
FileNotches == {StochNotch(b[1], b[2], d).obj : b \in FileBounds, d \in FileDescs}

InitFile ==
    /\ notches \in {s \in SeqsUpTo(FileNotches, MaxRows) : Len(s) >= 1}
    /\ old = notches
    /\ op = "none"
    /\ raised = NoError
    /\ args = None
    /\ ret = None
    /\ file = <<>>
    /\ loaded = None

SaveToTxt ==
    /\ op = "none"
    /\ LET r == save_to_txt(notches)
       IN /\ notches' = r.self
          /\ file' = r.lines
    /\ op' = "save_to_txt"
    /\ old' = notches
    /\ UNCHANGED <<raised, args, ret, loaded>>

LoadFromFile ==
    /\ op = "save_to_txt"
    /\ LET r == load_from_file(file)
       IN /\ raised' = r.raised
          /\ loaded' = [list |-> r.self]
    /\ op' = "load_from_file"
    /\ UNCHANGED <<notches, old, args, ret, file>>

NextFile ==
    \/ SaveToTxt
    \/ LoadFromFile

SpecFile == InitFile /\ [][NextFile]_vars

\* ------------------------------------------------------------ the overlap reduction function
\* Vectors are triples of integers.  A float is kept as what decides the
\* claims: whether it is NaN.  The arithmetic is exact: a quotient is NaN when
\* its divisor is 0 (numpy gives nan or inf with a warning, and arccos of
\* either is nan), and arccos is taken of a cosine that is within [-1, 1].
Dot(u, v) == u[1] * v[1] + u[2] * v[2] + u[3] * v[3]
Cross(u, v) ==
    <<u[2] * v[3] - u[3] * v[2], u[3] * v[1] - u[1] * v[3], u[1] * v[2] - u[2] * v[1]>>
Add(u, v) == <<u[1] + v[1], u[2] + v[2], u[3] + v[3]>>
IsZero(u) == Dot(u, u) = 0

\* tangent_vector(vector1, vector2), times dot(vector1, vector1) to stay in the
\* integers: NaN in every component when vector1 is zero.
tangent_vector(vector1, vector2) ==
    [nan |-> IsZero(vector1),
     scaled |-> <<Dot(vector1, vector1) * vector2[1] - Dot(vector1, vector2) * vector1[1],
                  Dot(vector1, vector1) * vector2[2] - Dot(vector1, vector2) * vector1[2],
                  Dot(vector1, vector1) * vector2[3] - Dot(vector1, vector2) * vector1[3]>>]

\* omega_tangent_bisector: arccos(dot / (norm * norm)), NaN when a norm is 0 or
\* the tangent is NaN.
omega_tangent_bisector(bisector, tangent) ==
    [nan |-> tangent.nan \/ IsZero(bisector) \/ IsZero(tangent.scaled)]

\* str.lower() on the letters the polarizations are written in.
LowerChar(c) ==
    CASE c = "T" -> "t" [] c = "E" -> "e" [] c = "N" -> "n" [] c = "S" -> "s"
      [] c = "O" -> "o" [] c = "R" -> "r" [] c = "V" -> "v" [] c = "C" -> "c"
      [] c = "A" -> "a" [] c = "L" -> "l" [] OTHER -> c
Lower(str) == [i \in 1..Len(str) |-> LowerChar(str[i])]

Tensor == <<"t", "e", "n", "s", "o", "r">>
Vector == <<"v", "e", "c", "t", "o", "r">>
Scalar == <<"s", "c", "a", "l", "a", "r">>

\* The branches of calc_orf with lower() left out.
KernelsCaseSensitive(polarization) ==
    IF polarization = Tensor THEN <<"Tplus", "Tminus">>
    ELSE IF polarization = Vector THEN <<"Vplus", "Vminus">>
    ELSE IF polarization = Scalar THEN <<"Splus", "Sminus">>
    ELSE <<>>

\* The if / elif / elif / else of calc_orf: the two kernels, none for the else.
Kernels(polarization) ==
    IF Lower(polarization) = Tensor THEN <<"Tplus", "Tminus">>
    ELSE IF Lower(polarization) = Vector THEN <<"Vplus", "Vminus">>
    ELSE IF Lower(polarization) = Scalar THEN <<"Splus", "Sminus">>
    ELSE <<>>

\* calc_orf: one value per frequency, each the sum of two terms
\* kernel(alpha, beta) * cos(factor * angle), alpha being that of the frequency.
calc_orf(freqs, det1_vertex, det2_vertex, det1_xarm, det2_xarm, det1_yarm, det2_yarm, polarization) ==
    LET betaNan == IsZero(det1_vertex) \/ IsZero(det2_vertex)
        tan_det1 == tangent_vector(det1_vertex, det2_vertex)
        bisector_det1 == Add(det1_xarm, det1_yarm)
        omega_det1 == omega_tangent_bisector(bisector_det1, tan_det1)
        perp == Cross(Cross(det1_vertex, det2_vertex), det1_vertex)
        tan_det2 == tangent_vector(det2_vertex, perp)
        bisector_det2 == Add(det2_xarm, det2_yarm)
        omega_det2 == omega_tangent_bisector(bisector_det2, tan_det2)
        omegaNan == omega_det1.nan \/ omega_det2.nan
        kernels == Kernels(polarization)
    IN IF kernels = <<>> THEN [raised |-> ValueError, value |-> <<>>]
       ELSE [raised |-> NoError,
             value |-> [i \in 1..Len(freqs) |->
                [nan |-> betaNan \/ omegaNan,
                 terms |-> <<[kernel |-> kernels[1], alpha_of |-> freqs[i],
                              factor |-> 4, angle |-> "omega_plus"],
                             [kernel |-> kernels[2], alpha_of |-> freqs[i],
                              factor |-> 4, angle |-> "omega_minus"]>>]]]

MaxOrfFreqs == 2

Vertices == {<<1, 0, 0>>, <<1, 1, 0>>, <<0, 1, 0>>, <<2, 0, 0>>, <<0, 0, 0>>}
Arms == {<<0, 1, 0>>, <<0, 0, 1>>, <<0, -1, 0>>}
Polarizations ==
    {Tensor, Vector, Scalar,
     <<"T", "e", "n", "s", "o", "r">>, <<"T", "E", "N", "S", "O", "R">>,
     <<"V", "E", "C", "T", "O", "R">>, <<"S", "c", "a", "l", "a", "r">>,
     <<"s", "p", "i", "n", "2">>, <<"t", "e", "n", "s", "o", "r", "s">>, <<>>}

InitOrf ==
    /\ \E freqs \in {f \in SeqsUpTo({0, 1}, MaxOrfFreqs) : Len(f) >= 1},
          det1_vertex \in Vertices, det2_vertex \in Vertices,
          det1_xarm \in Arms, det2_xarm \in Arms, det1_yarm \in Arms, det2_yarm \in Arms,
          polarization \in Polarizations :
        args = [freqs |-> freqs, det1_vertex |-> det1_vertex, det2_vertex |-> det2_vertex,
                det1_xarm |-> det1_xarm, det2_xarm |-> det2_xarm,
                det1_yarm |-> det1_yarm, det2_yarm |-> det2_yarm,
                polarization |-> polarization]
    /\ notches = <<>>
    /\ old = <<>>
    /\ op = "none"
    /\ raised = NoError
    /\ ret = None
    /\ file = <<>>
    /\ loaded = None

CalcOrf ==
    /\ op = "none"
    /\ LET r == calc_orf(args.freqs, args.det1_vertex, args.det2_vertex,
                         args.det1_xarm, args.det2_xarm, args.det1_yarm, args.det2_yarm,
                         args.polarization)
       IN /\ raised' = r.raised
          /\ ret' = [value |-> r.value]
    /\ op' = "calc_orf"
    /\ UNCHANGED <<notches, old, args, file, loaded>>

NextOrf == CalcOrf

SpecOrf == InitOrf /\ [][NextOrf]_vars

\* ------------------------------------------------------------ comb
\* A Python number: an int or a float, v being its value in hundredths.
PyInt(n) == [dtype |-> "int", v |-> 100 * n]
PyFloat(v) == [dtype |-> "float", v |-> v]

\* The text an f-string puts for {x}: str(x).
PyStr(x) == IF x.dtype = "int" THEN StrOfInt(x.v) ELSE StrOfFloat(x.v)

\* A Python string is a sequence of pieces of text, and the description
\* argument is None or a string; `if description:` is true of a string that is
\* not empty, false of None and of "".
PyString(text) == [none |-> FALSE, text |-> text]
IsGiven(description) == description # None /\ description.text # <<>>

\* TotalDescription with the caller's description added without the space.
TotalDescriptionNoSpace(f0, f_spacing, description) ==
    LET auto == <<"Comb with fundamental freq ">> \o PyStr(f0)
                    \o <<" and spacing ">> \o PyStr(f_spacing)
    IN IF IsGiven(description) THEN auto \o description.text ELSE auto

\* TotalDescription as the loop of comb builds it for every line.
TotalDescription(f0, f_spacing, description) ==
    LET auto == <<"Comb with fundamental freq ">> \o PyStr(f0)
                    \o <<" and spacing ">> \o PyStr(f_spacing)
    IN IF IsGiven(description) THEN auto \o <<" ">> \o description.text ELSE auto

\* The loop of comb over freqs = [f0 + n * f_spacing for n in range(n_harmonics)],
\* from n on.
RECURSIVE CombLoop(_, _, _, _, _, _, _)
CombLoop(f0, f_spacing, n_harmonics, df, description, n, out) ==
    IF n >= n_harmonics THEN [raised |-> NoError, self |-> out]
    ELSE LET f == f0.v + n * f_spacing.v
             made == StochNotch(f - Half(df), f + Half(df),
                                TotalDescription(f0, f_spacing, description))
         IN IF made.raised # NoError
            THEN [raised |-> made.raised, self |-> out]
            ELSE CombLoop(f0, f_spacing, n_harmonics, df, description, n + 1,
                          Append(out, made.obj))

\* comb with the harmonics counted from 1, as power_lines counts them.
comb_from_one(f0, f_spacing, n_harmonics, df, description) ==
    CombLoop(f0, f_spacing, n_harmonics + 1, df, description, 1, <<>>)

comb(f0, f_spacing, n_harmonics, df, description) ==
    CombLoop(f0, f_spacing, n_harmonics, df, description, 0, <<>>)

\* The arguments comb is called with: 10 and 5 as ints and as floats, 2.5 and
\* 0.5, widths of 1, 0.5, 0 and -1, and a description, "" or None.
CombF0 == {PyInt(10), PyFloat(1000), PyFloat(250)}
CombSpacing == {PyInt(5), PyFloat(500), PyFloat(50)}
CombDf == {-100, 0, 50, 100}
CombDescriptions == {None, PyString(<<>>), PyString(<<"mains">>)}

InitComb ==
    /\ \E f0 \in CombF0, f_spacing \in CombSpacing,
          n_harmonics \in (-1)..(MaxHarmonics + 1),
          df \in CombDf, description \in CombDescriptions :
        args = [f0 |-> f0, f_spacing |-> f_spacing, n_harmonics |-> n_harmonics,
                df |-> df, description |-> description]
    /\ notches = <<>>
    /\ old = <<>>
    /\ op = "none"
    /\ raised = NoError
    /\ ret = None
    /\ file = <<>>
    /\ loaded = None

Comb ==
    /\ op = "none"
    /\ LET r == comb(args.f0, args.f_spacing, args.n_harmonics, args.df, args.description)
       IN /\ op' = "comb"
          /\ raised' = r.raised
          /\ notches' = IF r.raised = NoError THEN r.self ELSE <<>>
          /\ UNCHANGED <<old, args, ret, file, loaded>>

NextComb == Comb

SpecComb == InitComb /\ [][NextComb]_vars

\* ------------------------------------------------------------ the claims on the list
Count(s, x) == Cardinality({i \in 1..Len(s) : s[i] = x})
IsPermutation(s, t) ==
    /\ Len(s) = Len(t)
    /\ \A x \in Range(s) \cup Range(t) : Count(s, x) = Count(t, x)
NonDecreasing(s) ==
    \A i \in 1..Len(s) : \A j \in i..Len(s) :
        s[i].minimum_frequency <= s[j].minimum_frequency
WithMinimum(s, m) == SelectSeq(s, LAMBDA n : n.minimum_frequency = m)
KeepsTies(s, t) ==
    \A m \in {s[i].minimum_frequency : i \in 1..Len(s)} : WithMinimum(s, m) = WithMinimum(t, m)
AsNotch(triple) ==
    [minimum_frequency |-> triple.items[1],
     maximum_frequency |-> triple.items[2],
     description |-> triple.items[3]]
Constructed == op = "StochNotchList" /\ args.notch_list # None
Elems == args.notch_list.elems
HoldsTheTriples ==
    /\ raised = NoError
    /\ Len(notches) = Len(Elems)
    /\ \A k \in 1..Len(Elems) : notches[k] = AsNotch(Elems[k])

\* What the claim calls a tuple of exactly 3 elements.
TupleOfThree(e) == e.isTuple /\ Len(e.items) = 3

\* C6 as stated: the constructor fails with ValueError when some element is not
\* a tuple of three items, wherever it sits, and whenever every element is such
\* a tuple it succeeds and holds one notch per triple, in order.
C6_AsStated ==
    Constructed =>
        /\ (\E k \in 1..Len(Elems) : ~TupleOfThree(Elems[k])) => raised = ValueError
        /\ (\A k \in 1..Len(Elems) : TupleOfThree(Elems[k])) => HoldsTheTriples

\* C6, amended: the constructor fails with ValueError when some element is not a
\* tuple of three items, wherever it sits, or is a triple whose bounds the Notch
\* constructor rejects; when every element is a triple with accepted bounds it
\* succeeds and holds one notch per triple, in input order, with the triple's
\* (min, max, description).
C6_Constructor ==
    Constructed =>
        LET wellFormed == \A k \in 1..Len(Elems) :
                /\ TupleOfThree(Elems[k])
                /\ NotchAccepts(Elems[k].items[1], Elems[k].items[2])
        IN /\ ~wellFormed => raised = ValueError
           /\ wellFormed => HoldsTheTriples

\* A malformed element in last place, after two triples that were appended.
C6_Witness ==
    /\ Constructed
    /\ Len(Elems) = 3
    /\ TupleOfThree(Elems[1]) /\ TupleOfThree(Elems[2]) /\ ~TupleOfThree(Elems[3])
    /\ ~Elems[3].isTuple
    /\ raised = ValueError

C8_SortList ==
    /\ op = "sort_list" =>
        /\ IsPermutation(old, notches)
        /\ NonDecreasing(notches)
        /\ KeepsTies(old, notches)
    /\ op = "append" => notches = Append(old, args.notch)

\* sort_list moved a notch in front of two that share a minimum frequency and
\* differ.
C8_Witness ==
    /\ op = "sort_list"
    /\ old # notches
    /\ \E i \in 1..Len(old) : \E j \in (i + 1)..Len(old) :
        /\ old[i].minimum_frequency = old[j].minimum_frequency
        /\ old[i] # old[j]

\* An append after sort_list left the list out of order.
C8_UnsortedAfterAppend ==
    op = "append" /\ args.after_sort /\ ~NonDecreasing(notches)

\* C10: check_frequency(freq) is true exactly when some notch of the list has
\* minimum_frequency <= freq <= maximum_frequency, false on the empty list, and
\* leaves the list as it was.
C10_CheckFrequency ==
    op = "check_frequency" =>
        /\ ret.value = (\E k \in 1..Len(old) :
                /\ old[k].minimum_frequency <= args.freq
                /\ args.freq <= old[k].maximum_frequency)
        /\ (old = <<>> => ret.value = FALSE)
        /\ notches = old

\* The frequency is outside the first notch and inside a later one.
C10_Witness ==
    /\ op = "check_frequency"
    /\ Len(notches) >= 2
    /\ ret.value
    /\ ~Notch_check_frequency(notches[1], args.freq)

\* ------------------------------------------------------------ the claims on get_idxs
Masked == op = "get_idxs"
FreqArray == args.frequency_array
NBins == Len(FreqArray)
BinDf == Abs(FreqArray[3] - FreqArray[2])
Rounded(k) == Round(FreqArray[k], Precision(BinDf, args.dtype))
\* The window of bin i (from 1) as the specification words it.
ClaimLow(i) == IF i = 1 THEN Rounded(1) - BinDf ELSE Rounded(i - 1)
ClaimHigh(i) == IF i = NBins THEN Rounded(NBins) + BinDf ELSE Rounded(i + 1)
Overlaps(notch, i) ==
    /\ ~(notch.maximum_frequency <= ClaimLow(i))
    /\ ~(notch.minimum_frequency >= ClaimHigh(i))
UniformAscending(f) ==
    /\ f[2] > f[1]
    /\ \A k \in 1..(Len(f) - 1) : f[k + 1] - f[k] = f[2] - f[1]
NeighboursFlagged(i) ==
    /\ Truthy(ret.idxs[i - 1])
    /\ Truthy(ret.idxs[i])
    /\ Truthy(ret.idxs[i + 1])

C2_AsStated ==
    (Masked /\ Len(notches) = 1 /\ UniformAscending(FreqArray)) =>
        \A i \in 2..(NBins - 1) :
            (/\ FreqArray[i - 1] < notches[1].minimum_frequency
             /\ notches[1].minimum_frequency <= FreqArray[i]
             /\ FreqArray[i] <= notches[1].maximum_frequency
             /\ notches[1].maximum_frequency < FreqArray[i + 1])
            => NeighboursFlagged(i)

\* C2, amended: on a uniform ascending array whose entries the rounding to
\* df's printed precision leaves as they are, a single notch with
\* freq[i-1] < min < freq[i] < max < freq[i+1] at an interior bin i flags bins
\* i-1, i and i+1.
C2_ThreeBins ==
    (/\ Masked
     /\ Len(notches) = 1
     /\ UniformAscending(FreqArray)
     /\ \A k \in 1..NBins : Rounded(k) = FreqArray[k]) =>
        \A i \in 2..(NBins - 1) :
            (/\ FreqArray[i - 1] < notches[1].minimum_frequency
             /\ notches[1].minimum_frequency < FreqArray[i]
             /\ FreqArray[i] < notches[1].maximum_frequency
             /\ notches[1].maximum_frequency < FreqArray[i + 1])
            => NeighboursFlagged(i)

\* Four bins, the notch strictly around the second, the fourth not flagged.
C2_Witness ==
    /\ Masked
    /\ Len(notches) = 1
    /\ UniformAscending(FreqArray)
    /\ \A k \in 1..NBins : Rounded(k) = FreqArray[k]
    /\ NBins = 4
    /\ FreqArray[1] < notches[1].minimum_frequency
    /\ notches[1].minimum_frequency < FreqArray[2]
    /\ FreqArray[2] < notches[1].maximum_frequency
    /\ notches[1].maximum_frequency < FreqArray[3]
    /\ NeighboursFlagged(2)
    /\ ~Truthy(ret.idxs[4])

\* C9: get_idxs returns mask and inverse_mask with one entry per frequency
\* each, and inverse_mask[i] is true exactly when mask[i] is not, the empty
\* list included.
C9_InverseMask ==
    Masked =>
        /\ Len(ret.idxs) = NBins
        /\ Len(ret.inv_idxs) = NBins
        /\ \A i \in 1..NBins : Truthy(ret.inv_idxs[i]) <=> ~Truthy(ret.idxs[i])

\* The empty list on four bins: nothing is flagged, every inverse entry is
\* true.
C9_Witness ==
    /\ Masked
    /\ notches = <<>>
    /\ NBins = 4
    /\ Len(ret.inv_idxs) = 4
    /\ \A i \in 1..NBins : Truthy(ret.inv_idxs[i])

\* C12: get_idxs is conservative for point membership: on a strictly
\* ascending, uniformly spaced frequency array of three bins or more, a bin
\* whose frequency check_frequency says is inside some notch is masked.
C12_Conservative ==
    (Masked /\ NBins >= 3 /\ UniformAscending(FreqArray)) =>
        \A i \in 1..NBins :
            check_frequency(notches, FreqArray[i]) => Truthy(ret.idxs[i])

\* The same on arrays of floats only.
C12_FloatArrays ==
    (Masked /\ NBins >= 3 /\ UniformAscending(FreqArray) /\ args.dtype = "float") =>
        \A i \in 1..NBins :
            check_frequency(notches, FreqArray[i]) => Truthy(ret.idxs[i])

\* On an array of floats a bin lies inside the second notch of the list and is
\* masked, while another bin is in no notch and is left unmasked.
C12_FloatWitness ==
    /\ Masked /\ NBins >= 3 /\ UniformAscending(FreqArray) /\ args.dtype = "float"
    /\ Len(notches) = 2
    /\ \E i \in 1..NBins :
        /\ ~Notch_check_frequency(notches[1], FreqArray[i])
        /\ Notch_check_frequency(notches[2], FreqArray[i])
        /\ notches[2].minimum_frequency < FreqArray[i]
        /\ FreqArray[i] < notches[2].maximum_frequency
        /\ Truthy(ret.idxs[i])
    /\ \E j \in 1..NBins : ~Truthy(ret.idxs[j])

\* ------------------------------------------------------------ the claims on the file
\* C3: save_to_txt then load_from_file gives a list with as many notches as the
\* saved one and, at each place of the sorted list, the same (minimum_frequency,
\* maximum_frequency, description), for one row as for several.
C3_RoundTrip ==
    op = "load_from_file" =>
        /\ raised = NoError
        /\ Len(loaded.list) = Len(notches)
        /\ \A k \in 1..Len(notches) : loaded.list[k] = notches[k]

\* C3's numbers alone, for a file of one row: the two bounds come back.
C3_OneRowBounds ==
    (op = "load_from_file" /\ Len(notches) = 1) =>
        /\ raised = NoError
        /\ Len(loaded.list) = 1
        /\ loaded.list[1].minimum_frequency = notches[1].minimum_frequency
        /\ loaded.list[1].maximum_frequency = notches[1].maximum_frequency

\* ------------------------------------------------------------ the claims on calc_orf
Called == op = "calc_orf"
\* A detector off the Earth's centre whose arms are at right angles.
IsDetector(vertex, xarm, yarm) ==
    ~IsZero(vertex) /\ ~IsZero(xarm) /\ ~IsZero(yarm) /\ Dot(xarm, yarm) = 0
Coincident ==
    /\ IsDetector(args.det1_vertex, args.det1_xarm, args.det1_yarm)
    /\ args.det1_vertex = args.det2_vertex
    /\ args.det1_xarm = args.det2_xarm
    /\ args.det1_yarm = args.det2_yarm
TermsAre(value, plus, minus) ==
    /\ value.terms[1].kernel = plus /\ value.terms[1].angle = "omega_plus"
    /\ value.terms[2].kernel = minus /\ value.terms[2].angle = "omega_minus"
    /\ value.terms[1].factor = 4 /\ value.terms[2].factor = 4
ReturnsWith(plus, minus) ==
    /\ raised = NoError
    /\ Len(ret.value) = Len(args.freqs)
    /\ \A i \in 1..Len(args.freqs) :
        /\ TermsAre(ret.value[i], plus, minus)
        /\ ret.value[i].terms[1].alpha_of = args.freqs[i]
        /\ ret.value[i].terms[2].alpha_of = args.freqs[i]

\* C4: for two coincident detectors with the same arms (a vertex off the
\* origin, arms at right angles), calc_orf with polarization "tensor" returns a
\* defined value, not NaN, at every frequency.
C4_CoincidentDefined ==
    (Called /\ Coincident /\ Lower(args.polarization) = Tensor) =>
        /\ raised = NoError
        /\ \A i \in 1..Len(args.freqs) : ~ret.value[i].nan

\* C5: whatever the case of its letters, polarization "tensor" gives
\* Tplus * cos(4 omega_plus) + Tminus * cos(4 omega_minus), "vector" the same
\* of Vplus and Vminus, "scalar" of Splus and Sminus; any other polarization
\* ends in ValueError and returns nothing.
C5_Polarization ==
    Called =>
        LET p == Lower(args.polarization)
        IN /\ p = Tensor => ReturnsWith("Tplus", "Tminus")
           /\ p = Vector => ReturnsWith("Vplus", "Vminus")
           /\ p = Scalar => ReturnsWith("Splus", "Sminus")
           /\ p \notin {Tensor, Vector, Scalar} => (raised = ValueError /\ ret.value = <<>>)

\* "VECTOR" in capitals on two frequencies and a geometry that gives numbers.
C5_Witness ==
    /\ Called
    /\ args.polarization = <<"V", "E", "C", "T", "O", "R">>
    /\ Len(args.freqs) = 2
    /\ ReturnsWith("Vplus", "Vminus")
    /\ ~ret.value[1].nan

\* ------------------------------------------------------------ the claims on comb
\* The description the claim gives every notch.
CombDescription ==
    LET auto == <<"Comb with fundamental freq ">> \o PyStr(args.f0)
                    \o <<" and spacing ">> \o PyStr(args.f_spacing)
    IN IF args.description = None \/ args.description = PyString(<<>>) THEN auto
       ELSE auto \o <<" ">> \o args.description.text

C11_WitnessDescribed ==
    /\ op = "comb"
    /\ raised = NoError
    /\ args.f0 = PyFloat(250) /\ args.f_spacing = PyFloat(50)
    /\ Len(notches) = 2
    /\ notches[2].description =
           <<"Comb with fundamental freq ", "2", ".", "5", " and spacing ",
             "0", ".", "5", " ", "mains">>

\* A negative width is refused by the Notch constructor, and no list comes back.
C11_NegativeWidth ==
    op = "comb" /\ args.df < 0 /\ args.n_harmonics > 0 => raised = ValueError

====
